---- MODULE Spec2Model ----
(***************************************************************************)
(* A model of the CHIP-8 interpreter of src/src/main.rs: the CHIP8 struct, *)
(* its fetch/decode/execute step (update, process_op), the FrameBuffer and *)
(* the timer update, driven by the host's event handler of main.           *)
(***************************************************************************)
EXTENDS Integers, Sequences, FiniteSets, TLC

VARIABLES
    data,       \* the bytes of the ROM file main loads
    emulator,   \* the CHIP8 struct of main (fields as in the source, plus
                \* panicked: the process was aborted by a Rust panic)
    elapsed,    \* last_instant.elapsed(), in ticks of 1/TicksPerSec second
    build,      \* "debug": integer overflow panics; "release": it wraps
    steps,      \* history: how many times the event handler has run
    pre         \* history: the machine as update() found it in the last run
                \* of the handler, and the elapsed time that run observed

vars == <<data, emulator, elapsed, build, steps, pre>>

----------------------------------------------------------------------------
(* Program constants *)

MEMORY_SIZE == 4096
PROGRAM_START == 512
STACK_PREALLOC == 32
\* the other setting of the quirk toggle
ORIGINAL_CHIP == FALSE
SUPER_CHIP == TRUE
TIMER_HZ == 60

(* Bounds of the model *)

TicksPerSec == 2     \* resolution of modelled wall-clock time
MaxElapsed == 10     \* largest modelled time between two timer updates, in ticks
MaxStack == 34       \* cap on the call stack's length
MaxSteps == 6        \* how many runs of the event handler are explored
MaxDraws == 2        \* how many times FrameBuffer::set is applied in SpecSet

\* Option<u8>: None is the empty sequence, Some(k) the sequence of k alone
None == <<>>
Some(k) == <<k>>
unwrap(o) == o[1]

U8 == 256
U16 == 65536

----------------------------------------------------------------------------
(* Bit and character helpers *)

\* get_bit: bit `position` of `value`, counted from the most significant bit
get_bit(value, position) == (value \div (2 ^ (7 - position))) % 2 = 1

RECURSIVE BitOp(_, _, _, _)
\* the bitwise operators |, &, ^ of u8, bit by bit over n bits
BitOp(op, a, b, n) ==
    IF n = 0 THEN 0
    ELSE LET x == a % 2
             y == b % 2
             r == CASE op = "or"  -> (IF x + y > 0 THEN 1 ELSE 0)
                    [] op = "and" -> x * y
                    [] op = "xor" -> (x + y) % 2
         IN  r + 2 * BitOp(op, a \div 2, b \div 2, n - 1)

HexDigits == <<"0", "1", "2", "3", "4", "5", "6", "7",
               "8", "9", "A", "B", "C", "D", "E", "F">>

\* format!("{:X}", byte): upper-case hexadecimal without leading zeros
format_X(byte) ==
    IF byte < 16 THEN <<HexDigits[byte + 1]>>
    ELSE <<HexDigits[(byte \div 16) + 1], HexDigits[(byte % 16) + 1]>>

\* hex_char_to_u16: one character to its value; anything else is 0
hex_char_to_u16(c) ==
    IF \E i \in 1..16 : HexDigits[i] = c
    THEN (CHOOSE i \in 1..16 : HexDigits[i] = c) - 1
    ELSE 0

RECURSIVE from_str_radix(_, _)
\* u16::from_str_radix(s, 16) of a non-empty string of hexadecimal digits,
\* accumulated left to right from `acc`
from_str_radix(s, acc) ==
    IF s = <<>> THEN acc
    ELSE from_str_radix(Tail(s), acc * 16 + hex_char_to_u16(Head(s)))

\* hex_chars_to_u16: the characters collected into a string and parsed
hex_chars_to_u16(chars) == from_str_radix(chars, 0)

----------------------------------------------------------------------------
(* Font and memory *)

get_character_sprite(c) ==
    CASE c = "0" -> <<240, 144, 144, 144, 240>>
      [] c = "1" -> <<32, 96, 32, 32, 112>>
      [] c = "2" -> <<240, 16, 240, 128, 240>>
      [] c = "3" -> <<240, 16, 240, 16, 240>>
      [] c = "4" -> <<144, 144, 240, 16, 16>>
      [] c = "5" -> <<240, 128, 240, 16, 240>>
      [] c = "6" -> <<240, 128, 240, 144, 240>>
      [] c = "7" -> <<240, 16, 32, 64, 64>>
      [] c = "8" -> <<240, 144, 240, 144, 240>>
      [] c = "9" -> <<240, 144, 240, 16, 240>>
      [] c = "A" -> <<240, 144, 240, 144, 144>>
      [] c = "B" -> <<224, 144, 224, 144, 224>>
      [] c = "C" -> <<240, 128, 128, 128, 240>>
      [] c = "D" -> <<224, 144, 144, 144, 224>>
      [] c = "E" -> <<240, 128, 240, 128, 240>>
      [] c = "F" -> <<240, 128, 240, 128, 128>>
      [] OTHER -> <<0, 0, 0, 0, 0>>

\* The memory array [u8; 4096] is kept as the bytes written since
\* construction (address :> byte); every other address holds what
\* CHIP8::new put there, which image_byte computes from the ROM.

\* load_font_into_memory: '0'..'9' then 'A'..'F', five bytes each, from 0
load_font_into_memory(a) ==
    IF a < 80 THEN get_character_sprite(HexDigits[(a \div 5) + 1])[(a % 5) + 1]
    ELSE 0

\* load_program_into_memory: the program's bytes from address 512 on, over
\* what the font loader left
load_program_into_memory(a, program) ==
    IF a >= PROGRAM_START /\ a - PROGRAM_START < Len(program)
    THEN program[a - PROGRAM_START + 1]
    ELSE load_font_into_memory(a)

\* memory[a] after CHIP8::new(data)
image_byte(a) == load_program_into_memory(a, data)

\* memory[a], for a < 4096
memory_at(m, a) == IF a \in DOMAIN m.memory THEN m.memory[a] ELSE image_byte(a)

\* memory[a] = byte
memory_put(memory, a, byte) ==
    [b \in DOMAIN memory \cup {a} |-> IF b = a THEN byte ELSE memory[b]]

----------------------------------------------------------------------------
(* FrameBuffer *)

\* The pixel grid [[bool; 64]; 32] is kept as the set of the <<x, y>> that
\* are on: pixels[y][x] is <<x, y>> \in pixels.

\* FrameBuffer::new and FrameBuffer::clear: 32 rows of 64 pixels, all off
FrameBuffer_new == {}

\* a write that turns the pixel on instead of toggling it
flip_on(pixels, x, y) == pixels \cup {<<x, y>>}

\* pixels[y][x] ^= true
flip(pixels, x, y) ==
    IF <<x, y>> \in pixels THEN pixels \ {<<x, y>>} ELSE pixels \cup {<<x, y>>}

FrameBuffer_clear(pixels) == FrameBuffer_new

RECURSIVE set_loop_wrapping(_, _, _, _, _, _)
\* FrameBuffer::set as it would be if columns past 63 wrapped to column 0
set_loop_wrapping(pixels, x, y, value, i, vf_flip) ==
    IF i >= 8 THEN [pixels |-> pixels, vf_flip |-> vf_flip]
    ELSE IF get_bit(value, i)
         THEN set_loop_wrapping(flip(pixels, (x + i) % 64, y), x, y, value, i + 1,
                                vf_flip \/ <<(x + i) % 64, y>> \in pixels)
         ELSE set_loop_wrapping(pixels, x, y, value, i + 1, vf_flip)

RECURSIVE set_loop(_, _, _, _, _, _)
\* the body of FrameBuffer::set from iteration i on
set_loop(pixels, x, y, value, i, vf_flip) ==
    IF i >= 8 \/ x + i > 63 THEN [pixels |-> pixels, vf_flip |-> vf_flip]
    ELSE IF get_bit(value, i)
         THEN set_loop(flip(pixels, x + i, y), x, y, value, i + 1,
                       vf_flip \/ <<x + i, y>> \in pixels)
         ELSE set_loop(pixels, x, y, value, i + 1, vf_flip)

\* FrameBuffer::set: XOR the byte into row y from column x; the result is
\* the new pixels and whether an on pixel was turned off
FrameBuffer_set(pixels, x, y, value) == set_loop(pixels, x, y, value, 0, FALSE)

----------------------------------------------------------------------------
(* CHIP8 *)

\* CHIP8::new
CHIP8_new(program) ==
    [ registers   |-> [r \in 0..15 |-> 0],
      memory      |-> <<>>,
      pc          |-> PROGRAM_START,
      sp          |-> 0,
      index_reg   |-> 0,
      stack       |-> [i \in 1..STACK_PREALLOC |-> 0],
      current_op  |-> <<>>,
      sound_timer |-> 0,
      delay_timer |-> 0,
      frame_buffer |-> FrameBuffer_new,
      paused      |-> FALSE,
      key_pressed |-> FALSE,
      last_key    |-> None,
      panicked    |-> FALSE ]

\* CHIP8::pause
pause(m) == [m EXCEPT !.paused = ~ @]

\* a panic: the process stops with the machine as it is at that point
Panic(m) == [m EXCEPT !.panicked = TRUE]

\* CHIP8::update_timers, with delta = (elapsed_secs * 60) as u8; `checked`
\* says whether the build panics on integer overflow (otherwise it wraps)
update_timers(m, delta, checked) ==
    LET sound == IF 255 - m.sound_timer >= delta
                 THEN m.sound_timer - delta
                 ELSE 0
        m1    == [m EXCEPT !.sound_timer = sound % U8]
        delay == IF 255 - m1.delay_timer >= delta
                 THEN m1.delay_timer - delta
                 ELSE 0
        m2    == [m1 EXCEPT !.delay_timer = delay % U8]
    IN  IF sound < 0 /\ checked THEN Panic(m)
        ELSE IF delay < 0 /\ checked THEN Panic(m1)
        ELSE m2

\* a return that loads the program counter and leaves the entry on the stack
return_keeping_top(m) ==
    IF Len(m.stack) = 0 THEN Panic(m)
    ELSE [m EXCEPT !.pc = m.stack[Len(m.stack)]]

\* CHIP8::return_from_subroutine: indexing an empty stack panics
return_from_subroutine(m) ==
    IF Len(m.stack) = 0 THEN Panic(m)
    ELSE [m EXCEPT !.pc = m.stack[Len(m.stack)],
                   !.stack = SubSeq(m.stack, 1, Len(m.stack) - 1)]

\* the operands process_op reads from the four characters of the opcode
op_X(chars) == hex_char_to_u16(chars[2])
op_Y(chars) == hex_char_to_u16(chars[3])
op_N(chars) == hex_char_to_u16(chars[4])
op_NN(chars) == hex_chars_to_u16(SubSeq(chars, 3, 4))
op_NNN(chars) == hex_chars_to_u16(SubSeq(chars, 2, 4))

\* the result of one match arm: the machine and whether to increment pc
Arm(m, inc) == [emu |-> m, inc |-> inc]

\* '0': 00E0 and 00EE (only chars[2] and chars[3] are looked at)
arm_0(m, chars) ==
    IF chars[3] = "E"
    THEN CASE chars[4] = "0" ->
                Arm([m EXCEPT !.frame_buffer = FrameBuffer_clear(@)], TRUE)
           [] chars[4] = "E" -> Arm(return_from_subroutine(m), TRUE)
           [] OTHER -> Arm(m, TRUE)
    ELSE Arm(m, TRUE)

\* a jump that leaves the increment of the program counter on
arm_1_incrementing(m, chars) == Arm([m EXCEPT !.pc = op_NNN(chars)], TRUE)

\* '1': JMP
arm_1(m, chars) == Arm([m EXCEPT !.pc = op_NNN(chars)], FALSE)

\* '2': call
arm_2(m, chars) ==
    Arm([m EXCEPT !.stack = Append(@, m.pc), !.pc = op_NNN(chars)], TRUE)

\* '3' and '4': skip on register against immediate
arm_3(m, chars) ==
    IF m.registers[op_X(chars)] = op_NN(chars)
    THEN Arm([m EXCEPT !.pc = @ + 2], TRUE)
    ELSE Arm(m, TRUE)

arm_4(m, chars) ==
    IF m.registers[op_X(chars)] # op_NN(chars)
    THEN Arm([m EXCEPT !.pc = @ + 2], TRUE)
    ELSE Arm(m, TRUE)

\* '5': both sides of the comparison read the register named by chars[1]
arm_5(m, chars) ==
    IF chars[4] = "0" /\ m.registers[op_X(chars)] = m.registers[op_X(chars)]
    THEN Arm([m EXCEPT !.pc = @ + 2], TRUE)
    ELSE Arm(m, TRUE)

\* '6': load
arm_6(m, chars) ==
    Arm([m EXCEPT !.registers[op_X(chars)] = op_NN(chars) % U8], TRUE)

\* an add immediate that wraps at 256 instead of saturating
arm_7_wrapping(m, chars) ==
    Arm([m EXCEPT !.registers[op_X(chars)] = (@ + op_NN(chars)) % U8], TRUE)

\* '7': add immediate, saturating
arm_7(m, chars) ==
    LET index == op_X(chars)
    IN  IF 255 - m.registers[index] >= op_NN(chars)
        THEN Arm([m EXCEPT !.registers[index] = @ + (op_NN(chars) % U8)], TRUE)
        ELSE Arm([m EXCEPT !.registers[index] = 255], TRUE)

\* an addition that wraps at 256 instead of saturating
add_wrapping(a, b) ==
    [value |-> (a + b) % U8, flag |-> IF a + b > 255 THEN 1 ELSE 0]

\* the two branches of 8XY4: what register X and register 15 are set to
add_with_carry(a, b) ==
    IF 255 - a >= b THEN [value |-> a + b, flag |-> 0]
    ELSE [value |-> 255, flag |-> 1]

\* a subtraction that wraps below 0 instead of giving 0
sub_wrapping(a, b) ==
    [value |-> (a - b) % U8, flag |-> IF a > b THEN 1 ELSE 0]

\* the two branches of 8XY5 (a - b with a = VX, b = VY) and of 8XY7
\* (a = VY, b = VX): what register X and register 15 are set to
sub_with_borrow(a, b) ==
    IF a > b THEN [value |-> a - b, flag |-> 1]
    ELSE [value |-> 0, flag |-> 0]

\* '8': register to register operations, selected by chars[3]
arm_8(m, chars) ==
    LET index == op_X(chars)
        second_index == op_Y(chars)
        vx == m.registers[index]
        vy == m.registers[second_index]
        \* the shifts first copy register Y into register X when SUPER_CHIP
        copied == IF SUPER_CHIP THEN [m EXCEPT !.registers[index] = vy] ELSE m
    IN  CASE chars[4] = "0" -> Arm([m EXCEPT !.registers[index] = vy], TRUE)
          [] chars[4] = "1" ->
                Arm([m EXCEPT !.registers[index] = BitOp("or", vx, vy, 8)], TRUE)
          [] chars[4] = "2" ->
                Arm([m EXCEPT !.registers[index] = BitOp("and", vx, vy, 8)], TRUE)
          [] chars[4] = "3" ->
                Arm([m EXCEPT !.registers[index] = BitOp("xor", vx, vy, 8)], TRUE)
          [] chars[4] = "4" ->
                Arm([[m EXCEPT !.registers[index] = add_with_carry(vx, vy).value]
                        EXCEPT !.registers[15] = add_with_carry(vx, vy).flag], TRUE)
          [] chars[4] = "5" ->
                Arm([[m EXCEPT !.registers[index] = sub_with_borrow(vx, vy).value]
                        EXCEPT !.registers[15] = sub_with_borrow(vx, vy).flag], TRUE)
          [] chars[4] = "6" ->
                LET flagged == [copied EXCEPT !.registers[15] =
                                  IF get_bit(copied.registers[index], 7) THEN 1 ELSE 0]
                IN  Arm([flagged EXCEPT !.registers[index] = @ \div 2], TRUE)
          [] chars[4] = "7" ->
                Arm([[m EXCEPT !.registers[index] = sub_with_borrow(vy, vx).value]
                        EXCEPT !.registers[15] = sub_with_borrow(vy, vx).flag], TRUE)
          [] chars[4] = "E" ->
                LET flagged == [copied EXCEPT !.registers[15] =
                                  IF get_bit(copied.registers[index], 0) THEN 1 ELSE 0]
                IN  Arm([flagged EXCEPT !.registers[index] = (@ * 2) % U8], TRUE)
          [] OTHER -> Arm(m, TRUE)

\* '9': both sides of the comparison read the register named by chars[1]
arm_9(m, chars) ==
    IF chars[4] = "0" /\ m.registers[op_X(chars)] # m.registers[op_X(chars)]
    THEN Arm([m EXCEPT !.pc = @ + 2], TRUE)
    ELSE Arm(m, TRUE)

\* 'A': set the index register
arm_A(m, chars) == Arm([m EXCEPT !.index_reg = op_NNN(chars)], TRUE)

\* 'B': jump with offset
arm_B(m, chars) ==
    LET reg == IF SUPER_CHIP THEN op_X(chars) ELSE 0
    IN  Arm([m EXCEPT !.pc = op_NNN(chars) + m.registers[reg]], FALSE)

\* 'C': gen_range(0..last_two) & last_two; an empty range panics. rnd is the
\* number the generator returns
arm_C(m, chars, rnd) ==
    LET last_two == op_NN(chars)
    IN  IF last_two = 0 THEN Arm(Panic(m), TRUE)
        ELSE Arm([m EXCEPT !.registers[op_X(chars)] =
                     BitOp("and", rnd, last_two, 16) % U8], TRUE)

\* the numbers gen_range(0..last_two) can return
gen_range(last_two) == 0..(last_two - 1)

RECURSIVE draw_loop(_, _, _, _, _, _)
\* the row loop of 'D' from iteration i on: a row at or past memory's end
\* panics with the rows drawn so far left on the frame buffer
draw_loop(m, x, y, n, i, vf_flip) ==
    IF i >= n \/ y > 31 THEN [emu |-> m, vf_flip |-> vf_flip]
    ELSE LET location == m.index_reg + i
         IN  IF location >= MEMORY_SIZE
             THEN [emu |-> Panic(m), vf_flip |-> vf_flip]
             ELSE LET drawn == FrameBuffer_set(m.frame_buffer, x, y,
                                               memory_at(m, location))
                  IN  draw_loop([m EXCEPT !.frame_buffer = drawn.pixels],
                                x, y + 1, n, i + 1, drawn.vf_flip)

\* 'D': draw a sprite of n rows
arm_D(m, chars) ==
    LET x == m.registers[op_X(chars)] % 64
        y == m.registers[op_Y(chars)] % 32
        n == op_N(chars)
        looped == draw_loop(m, x, y, n, 0, FALSE)
    IN  IF looped.emu.panicked THEN Arm(looped.emu, TRUE)
        ELSE Arm([looped.emu EXCEPT !.registers[15] =
                     IF looped.vf_flip THEN 1 ELSE 0], TRUE)

\* chars[2..3]: the half-open range holds the single character chars[2]
chars_2_3(chars) == SubSeq(chars, 3, 3)

\* Option::unwrap of last_key
unwrap_panics(m) == m.last_key = None

\* 'E': key skips, matched on the slice chars[2..3]
arm_E(m, chars) ==
    LET x == op_X(chars)
    IN  IF m.key_pressed
        THEN CASE chars_2_3(chars) = <<"9", "E">> ->
                    IF unwrap_panics(m) THEN Arm(Panic(m), TRUE)
                    ELSE IF m.registers[x] = unwrap(m.last_key)
                    THEN Arm([m EXCEPT !.pc = @ + 2], TRUE)
                    ELSE Arm(m, TRUE)
               [] chars_2_3(chars) = <<"A", "1">> ->
                    IF unwrap_panics(m) THEN Arm(Panic(m), TRUE)
                    ELSE IF m.registers[x] # unwrap(m.last_key)
                    THEN Arm([m EXCEPT !.pc = @ + 2], TRUE)
                    ELSE Arm(m, TRUE)
               [] OTHER -> Arm(m, TRUE)
        ELSE Arm(m, TRUE)

RECURSIVE store_loop(_, _, _)
\* FX55's loop from register i on: memory[index_reg + i] = registers[i]
store_loop(m, max, i) ==
    IF i > max THEN m
    ELSE IF m.index_reg + i >= MEMORY_SIZE THEN Panic(m)
    ELSE store_loop([m EXCEPT !.memory =
                        memory_put(@, m.index_reg + i, m.registers[i])],
                    max, i + 1)

RECURSIVE load_loop(_, _, _)
\* FX65's loop from register i on: registers[i] = memory[index_reg + i]
load_loop(m, max, i) ==
    IF i > max THEN m
    ELSE IF m.index_reg + i >= MEMORY_SIZE THEN Panic(m)
    ELSE load_loop([m EXCEPT !.registers[i] = memory_at(m, m.index_reg + i)],
                   max, i + 1)

\* digits that take the tens from the whole number, not from number % 100
digits_of_whole(number) ==
    LET digit_three == number % 10
        digit_two   == (number - digit_three) \div 10
        digit_one   == (number - (digit_two % 10) * 10 - digit_three) \div 100
    IN  <<digit_one, digit_two, digit_three>>

\* FX33's digits: [hundreds, tens, units] of a byte, in u8 arithmetic
digits(number) ==
    LET digit_three == number % 10
        digit_two   == ((number % 100) - digit_three) \div 10
        digit_one   == (number - digit_two * 10 - digit_three) \div 100
    IN  <<digit_one, digit_two, digit_three>>

\* the u8 subtractions and the multiplication of FX33's digits: whether one
\* of them leaves 0..255
digits_overflow(number) ==
    LET digit_three == number % 10
        digit_two   == ((number % 100) - digit_three) \div 10
    IN  \/ (number % 100) - digit_three < 0
        \/ digit_two * 10 > 255
        \/ number - digit_two * 10 < 0
        \/ number - digit_two * 10 - digit_three < 0

\* 'F': timers, keys, index register and memory, matched on chars[2..3]
arm_F(m, chars, checked) ==
    LET x == op_X(chars)
        sel == chars_2_3(chars)
    IN  CASE sel = <<"0", "7">> ->
                Arm([m EXCEPT !.registers[x] = m.delay_timer], TRUE)
          [] sel = <<"1", "5">> ->
                Arm([m EXCEPT !.delay_timer = m.registers[x]], TRUE)
          [] sel = <<"1", "8">> ->
                Arm([m EXCEPT !.sound_timer = m.registers[x]], TRUE)
          [] sel = <<"1", "E">> ->
                Arm([m EXCEPT !.index_reg = @ + m.registers[x]], TRUE)
          [] sel = <<"0", "A">> ->
                IF m.key_pressed
                THEN IF unwrap_panics(m) THEN Arm(Panic(m), TRUE)
                     ELSE Arm([m EXCEPT !.registers[x] = unwrap(m.last_key)], TRUE)
                ELSE IF m.pc < 2 /\ checked THEN Arm(Panic(m), TRUE)
                ELSE Arm([m EXCEPT !.pc = (@ - 2) % U16], TRUE)
          [] sel = <<"2", "9">> ->
                Arm([m EXCEPT !.index_reg = (m.registers[x] % 16) * 5], TRUE)
          [] sel = <<"3", "3">> ->
                IF m.index_reg + 2 >= MEMORY_SIZE
                THEN Arm(Panic(m), TRUE)
                ELSE Arm([m EXCEPT !.memory =
                            memory_put(
                              memory_put(
                                memory_put(@, m.index_reg, digits(m.registers[x])[1]),
                                m.index_reg + 1, digits(m.registers[x])[2]),
                              m.index_reg + 2, digits(m.registers[x])[3])],
                         TRUE)
          [] sel = <<"5", "5">> ->
                LET stored == store_loop(m, x, 0)
                IN  IF stored.panicked \/ SUPER_CHIP THEN Arm(stored, TRUE)
                    ELSE Arm([stored EXCEPT !.index_reg = @ + x + 1], TRUE)
          [] sel = <<"6", "5">> ->
                LET loaded == load_loop(m, x, 0)
                IN  IF loaded.panicked \/ SUPER_CHIP THEN Arm(loaded, TRUE)
                    ELSE Arm([loaded EXCEPT !.index_reg = @ + x + 1], TRUE)
          [] OTHER -> Arm(m, TRUE)

\* the match on chars[0] of process_op
dispatch(m, chars, rnd, checked) ==
    CASE chars[1] = "0" -> arm_0(m, chars)
      [] chars[1] = "1" -> arm_1(m, chars)
      [] chars[1] = "2" -> arm_2(m, chars)
      [] chars[1] = "3" -> arm_3(m, chars)
      [] chars[1] = "4" -> arm_4(m, chars)
      [] chars[1] = "5" -> arm_5(m, chars)
      [] chars[1] = "6" -> arm_6(m, chars)
      [] chars[1] = "7" -> arm_7(m, chars)
      [] chars[1] = "8" -> arm_8(m, chars)
      [] chars[1] = "9" -> arm_9(m, chars)
      [] chars[1] = "A" -> arm_A(m, chars)
      [] chars[1] = "B" -> arm_B(m, chars)
      [] chars[1] = "C" -> arm_C(m, chars, rnd)
      [] chars[1] = "D" -> arm_D(m, chars)
      [] chars[1] = "E" -> arm_E(m, chars)
      [] chars[1] = "F" -> arm_F(m, chars, checked)
      [] OTHER -> Arm(m, TRUE)

\* what process_op does after the match: advance pc, clear the pending key
advance(arm) ==
    [(IF arm.inc THEN [arm.emu EXCEPT !.pc = @ + 2] ELSE arm.emu)
        EXCEPT !.key_pressed = FALSE]

\* CHIP8::process_op
process_op(m, rnd, delta, checked) ==
    LET arm == dispatch(m, m.current_op, rnd, checked)
    IN  IF arm.emu.panicked THEN arm.emu
        ELSE update_timers(advance(arm), delta, checked)

\* the fetch and decode of CHIP8::update: the two bytes at pc as four
\* hexadecimal characters
first_byte(m) ==
    LET s == format_X(memory_at(m, m.pc))
    IN  IF Len(s) = 1 THEN <<"0">> \o s ELSE s

\* a decode that pads a one-digit second byte after its digit, not before
decode_padded_at_end(m) ==
    LET s == first_byte(m) \o format_X(memory_at(m, m.pc + 1))
    IN  IF Len(s) = 3 THEN s \o <<"0">> ELSE s

decode(m) ==
    LET s == first_byte(m) \o format_X(memory_at(m, m.pc + 1))
    IN  IF Len(s) = 3 THEN <<s[1], s[2], "0", s[3]>> ELSE s

\* a step that runs whether or not the machine is paused
update_while_paused(m, rnd, delta, checked) ==
    IF m.pc >= MEMORY_SIZE THEN Panic(m)
    ELSE IF m.pc + 1 >= MEMORY_SIZE
         THEN Panic([m EXCEPT !.current_op = first_byte(m)])
    ELSE process_op([m EXCEPT !.current_op = decode(m)], rnd, delta, checked)

\* CHIP8::update: one step of the machine
update(m, rnd, delta, checked) ==
    IF m.paused THEN m
    ELSE IF m.pc >= MEMORY_SIZE THEN Panic(m)
    ELSE IF m.pc + 1 >= MEMORY_SIZE
         THEN Panic([m EXCEPT !.current_op = first_byte(m)])
    ELSE process_op([m EXCEPT !.current_op = decode(m)], rnd, delta, checked)

----------------------------------------------------------------------------
(* The host: main's event handler and the programs it loads *)

\* an instruction word as the two bytes a ROM file stores for it
Word(a, b, c, d) == <<a * 16 + b, c * 16 + d>>
OpNNN(a, nnn) == Word(a, nnn \div 256, (nnn \div 16) % 16, nnn % 16)
OpXNN(a, x, nn) == Word(a, x, nn \div 16, nn % 16)

\* the keys the handler can latch, and the elapsed times it can observe
KeyInputs == {None, Some(10)}
TimeInputs == {0, TicksPerSec, MaxElapsed}

\* (as_secs() * 60) as u8 for an elapsed time in ticks
delta_of(ticks) == ((ticks \div TicksPerSec) * TIMER_HZ) % U8

\* the values the random generator can return in the step about to run
rnd_choices(m) ==
    IF ~ m.paused /\ m.pc + 1 < MEMORY_SIZE
       /\ decode(m)[1] = "C" /\ op_NN(decode(m)) > 0
    THEN gen_range(op_NN(decode(m)))
    ELSE {0}

\* the key match of the handler: last_key = Some(code), key_pressed = true
latch_key(m, key) ==
    IF key = None THEN m
    ELSE [m EXCEPT !.last_key = key, !.key_pressed = TRUE]

\* one run of the event handler: Space toggles pause, a mapped key is
\* latched, then update() runs; dt is the time since the handler last ran
HandlerRun(space, key, dt) ==
    /\ ~ emulator.panicked
    /\ elapsed + dt <= MaxElapsed
    /\ LET entered == latch_key(IF space THEN pause(emulator) ELSE emulator, key)
           delta   == delta_of(elapsed + dt)
       IN  /\ \E rnd \in rnd_choices(entered) :
                emulator' = update(entered, rnd, delta, build = "debug")
           /\ Len(emulator'.stack) <= MaxStack
           /\ elapsed' = IF entered.paused \/ emulator'.panicked
                         THEN elapsed + dt
                         ELSE 0
    /\ UNCHANGED <<data, build>>

\* ... with the history of the run: the machine as update() found it
HostEvent(space, key, dt) ==
    /\ HandlerRun(space, key, dt)
    /\ pre' = [emu |-> latch_key(IF space THEN pause(emulator) ELSE emulator, key),
               elapsed |-> elapsed + dt]

\* a ROM image: the bytes of its instruction words in order
RECURSIVE Rom(_)
Rom(words) == IF words = <<>> THEN <<>> ELSE Head(words) \o Rom(Tail(words))

\* call and return: a call to t, a load, a jump to itself, then a small
\* subroutine body at 518
CallTargets == {0, 518, 520, 4094}
CallPrograms ==
    { Rom(<<OpNNN(2, t), OpXNN(6, 0, 17), OpNNN(1, 516),
            OpXNN(6, 1, 34), Word(0, 0, 14, 14)>>) : t \in CallTargets }
    \cup { Rom(<<Word(0, 0, 14, 14), OpNNN(2, 518), OpNNN(1, 516),
                 Word(0, 0, 14, 14)>>) }

\* register comparisons: two loads, then 5XY0 or 9XY0
SkipRegs == {<<0, 1>>, <<3, 3>>, <<2, 15>>}
SkipValues == {7, 255}
SkipPrograms ==
    { Rom(<<OpXNN(6, r[1], a), OpXNN(6, r[2], b), Word(op, r[1], r[2], 0)>>) :
        r \in SkipRegs, a \in SkipValues, b \in SkipValues, op \in {5, 9} }

\* sprites: load x and y, point the index register at a glyph, draw n
\* rows, point it at another glyph and draw m rows at the same place
DrawXs == {0, 126}
DrawYs == {0, 62}
DrawFirst == {<<0, 5>>, <<5, 2>>, <<4094, 1>>}
DrawSecond == {<<0, 5>>, <<5, 2>>, <<4094, 3>>}
DrawPrograms ==
    { Rom(<<OpXNN(6, 0, x), OpXNN(6, 1, y),
            OpNNN(10, f[1]), Word(13, 0, 1, f[2]),
            OpNNN(10, g[1]), Word(13, 0, 1, g[2])>>) :
        x \in DrawXs, y \in DrawYs, f \in DrawFirst, g \in DrawSecond }

\* keys and glyph addresses: FX0A then a load; 6A05 then FA29
KeyPrograms ==
    { Rom(<<Word(15, 2, 0, 10), OpXNN(6, 1, 5), OpNNN(1, 516)>>),
      Rom(<<OpXNN(6, 10, 5), Word(15, 10, 2, 9), OpNNN(1, 516)>>),
      Rom(<<OpXNN(6, 10, 255), Word(15, 10, 2, 9), OpNNN(1, 516)>>) }

\* clear the screen, then jump back to 512
LoopProgram == Rom(<<Word(0, 0, 14, 0), OpNNN(1, 512)>>)

\* key skips: a load of register 1, then E19E or E1A1
KeySkipValues == {5, 10}
KeySkipPrograms ==
    { Rom(<<OpXNN(6, 1, v), OpXNN(14, 1, nn), OpNNN(1, 516)>>) :
        v \in KeySkipValues, nn \in {158, 161} }

\* random numbers: C0NN
RandomMasks == {0, 5, 12}
RandomPrograms == { Rom(<<OpXNN(12, 0, nn), OpNNN(1, 514)>>) : nn \in RandomMasks }

\* words that are no instruction of the machine, run after a load, a glyph
\* drawn at (7, 7) and a call
UnknownWords ==
    { Word(0, 1, 14, 0), Word(0, 15, 14, 14), Word(0, 1, 2, 3), Word(5, 0, 1, 1),
      Word(8, 0, 1, 8), Word(9, 0, 1, 1), Word(14, 0, 0, 0), Word(15, 0, 0, 0) }
UnknownPrograms ==
    { Rom(<<OpXNN(6, 0, 7), OpNNN(10, 0), Word(13, 0, 0, 5), OpNNN(2, 518), w>>) :
        w \in UnknownWords }

\* a jump to the last byte of memory
EdgePrograms == { Rom(<<OpNNN(1, 4095)>>) }

\* a ROM that fills memory to its last byte: the words, zeros, and the two
\* bytes 255 and 129 that land at addresses 4094 and 4095
FullRom(words) ==
    LET size == MEMORY_SIZE - PROGRAM_START
    IN  [i \in 1..size |->
            IF i <= Len(Rom(words)) THEN Rom(words)[i]
            ELSE IF i = size - 1 THEN 255
            ELSE IF i = size THEN 129
            ELSE 0]

\* sprites at the end of memory: load x, point the index register at one
\* of the last two bytes, draw n rows at (x, 0)
SpriteEdgeXs == {0, 60}
SpriteEdgeStarts == {4094, 4095}
SpriteEdgeRows == {1, 2, 3}
SpriteEdgePrograms ==
    { FullRom(<<OpXNN(6, 0, x), OpNNN(10, a), Word(13, 0, 1, n)>>) :
        x \in SpriteEdgeXs, a \in SpriteEdgeStarts, n \in SpriteEdgeRows }

Programs ==
    CallPrograms \cup SkipPrograms \cup DrawPrograms \cup KeyPrograms
    \cup {LoopProgram}
    \cup KeySkipPrograms \cup RandomPrograms \cup UnknownPrograms \cup EdgePrograms
    \cup SpriteEdgePrograms

Builds == {"debug", "release"}

\* main up to the event loop: the ROM is read and the machine constructed
Init ==
    /\ data \in Programs
    /\ build \in Builds
    /\ emulator = CHIP8_new(data)
    /\ elapsed = 0
    /\ steps = 0
    /\ pre = [emu |-> CHIP8_new(data), elapsed |-> 0]

\* the event loop while Space is not pressed: the handler runs with or
\* without a key, after some time
Next ==
    /\ steps < MaxSteps
    /\ steps' = steps + 1
    /\ \E key \in KeyInputs, dt \in TimeInputs : HostEvent(FALSE, key, dt)

Spec == Init /\ [][Next]_vars

----------------------------------------------------------------------------
(* FrameBuffer::set on its own: a frame buffer and the arguments (x, y,
   value) are drawn, and set is applied with them again and again.  Here
   pre holds the frame buffer as drawn, the arguments and what each
   application returned. *)

PixelPool == {<<0, 0>>, <<7, 0>>, <<62, 31>>, <<63, 31>>, <<5, 5>>}
SetXs == {0, 5, 57, 62, 63}
SetYs == {0, 5, 31}
SetBytes == {0, 1, 128, 129, 165, 255}

InitSet ==
    /\ data = <<>>
    /\ build \in Builds
    /\ \E prior \in SUBSET PixelPool, x \in SetXs, y \in SetYs, value \in SetBytes :
          /\ emulator = [CHIP8_new(<<>>) EXCEPT !.frame_buffer = prior]
          /\ pre = [pixels |-> prior, x |-> x, y |-> y, value |-> value,
                    returned |-> <<>>]
    /\ elapsed = 0
    /\ steps = 0

\* frame_buffer.set(x, y, value)
DrawByte ==
    /\ steps < MaxDraws
    /\ LET drawn == FrameBuffer_set(emulator.frame_buffer, pre.x, pre.y, pre.value)
       IN  /\ emulator' = [emulator EXCEPT !.frame_buffer = drawn.pixels]
           /\ pre' = [pre EXCEPT !.returned = Append(@, drawn.vf_flip)]
    /\ steps' = steps + 1
    /\ UNCHANGED <<data, build, elapsed>>

NextSet == DrawByte

SpecSet == InitSet /\ [][NextSet]_vars

----------------------------------------------------------------------------
(* The program 00E0, 1200 run for ever: the handler keeps running, less
   than a second apart, with any key or none *)

LoopKeyInputs == {None} \cup {Some(k) : k \in 0..15}
LoopTimeInputs == 0..(TicksPerSec - 1)

InitLoop ==
    /\ data = LoopProgram
    /\ build \in Builds
    /\ emulator = CHIP8_new(data)
    /\ elapsed = 0
    /\ steps = 0
    /\ pre = [emu |-> CHIP8_new(data), elapsed |-> 0]

\* steps stops counting at MaxSteps; the handler goes on running
NextLoop ==
    /\ steps' = IF steps < MaxSteps THEN steps + 1 ELSE steps
    /\ \E key \in LoopKeyInputs, dt \in LoopTimeInputs : HostEvent(FALSE, key, dt)

SpecLoop == InitLoop /\ [][NextLoop]_vars

----------------------------------------------------------------------------
(* What the last step did, read off the machine and the history *)

\* the handler has run, the machine was not paused, and update() fetched
\* both bytes of an instruction
Stepped ==
    steps > 0 /\ ~ pre.emu.paused /\ pre.emu.pc + 1 < MEMORY_SIZE

\* ... and the step ran to its end
Completed == Stepped /\ ~ emulator.panicked

\* the 16-bit word the step fetched and its fields, by arithmetic on the
\* two bytes at the program counter
word == memory_at(pre.emu, pre.emu.pc) * 256 + memory_at(pre.emu, pre.emu.pc + 1)
wClass == word \div 4096
wX == (word \div 256) % 16
wY == (word \div 16) % 16
wN == word % 16
wNN == word % 256
wNNN == word % 4096

\* the stack as CHIP8::new leaves it: no call is outstanding
NoCallOutstanding(m) == m.stack = CHIP8_new(data).stack

----------------------------------------------------------------------------
(* C1 *)

\* C1: a completed step that executes 2NNN at program counter p leaves p on
\* top of the call stack, over the entries that were there, and the program
\* counter equal to NNN.
C1_CallLeavesPcAtTarget ==
    (Completed /\ wClass = 2) =>
        /\ emulator.stack = Append(pre.emu.stack, pre.emu.pc)
        /\ emulator.pc = wNNN

(* C2 *)

\* C2: a step that executes 00EE while no call is outstanding (the stack is
\* as it was constructed) fails, and the program counter keeps its value.
C2_ReturnWithoutCallFaults ==
    (Stepped /\ word = 238 /\ NoCallOutstanding(pre.emu)) =>
        /\ emulator.panicked
        /\ emulator.pc = pre.emu.pc

(* C3 *)

\* C3: a completed 5XY0 advances the program counter by 4 exactly when
\* register X equals register Y and by 2 otherwise; a completed 9XY0 by 4
\* exactly when they differ and by 2 otherwise.
C3_SkipComparesXWithY ==
    LET vx == pre.emu.registers[wX]
        vy == pre.emu.registers[wY]
    IN  /\ (Completed /\ wClass = 5 /\ wN = 0) =>
              emulator.pc = pre.emu.pc + (IF vx = vy THEN 4 ELSE 2)
        /\ (Completed /\ wClass = 9 /\ wN = 0) =>
              emulator.pc = pre.emu.pc + (IF vx # vy THEN 4 ELSE 2)

----------------------------------------------------------------------------
(* C4, C5: DXYN *)

\* where the sprite of the last step goes, and its row r as stored
x0 == pre.emu.registers[wX] % 64
y0 == pre.emu.registers[wY] % 32
SpriteByte(r) == memory_at(pre.emu, pre.emu.index_reg + r)

\* bit p of a byte, counted from the most significant bit
MsbBit(byte, p) == (byte \div (2 ^ (7 - p))) % 2 = 1

\* the pixels DXYN is to toggle: the set bits of each row that fall on the
\* screen
Toggled ==
    { <<x0 + p, y0 + r>> : <<r, p>> \in
        { rp \in (0..(wN - 1)) \X (0..7) :
            /\ MsbBit(SpriteByte(rp[1]), rp[2])
            /\ x0 + rp[2] <= 63
            /\ y0 + rp[1] <= 31 } }

\* some row turned a pixel off that was on before the draw
SomeRowCollided == Toggled \cap pre.emu.frame_buffer # {}

\* C4: after a completed DXYN register 15 is 1 if some drawn row turned an
\* on pixel off, and 0 otherwise.
C4_FlagIsCollisionOfAnyRow ==
    (Completed /\ wClass = 13) =>
        emulator.registers[15] = IF SomeRowCollided THEN 1 ELSE 0

----------------------------------------------------------------------------
(* C6: FrameBuffer::set twice *)

\* C6: after set has been applied twice with the same x, y and byte, every
\* pixel is as it was before the first application.
C6_DoubleDrawRestores ==
    steps = 2 => emulator.frame_buffer = pre.pixels

\* C6 witness: two applications done, of a byte with set bits, clipped at
\* the right edge, over pixels that were on: the first turned one off
C6_DrewTwiceOverOnPixels ==
    /\ steps = 2
    /\ pre.value = 255 /\ pre.x = 62 /\ pre.y = 31
    /\ pre.pixels # {}
    /\ pre.returned = <<TRUE, FALSE>>

----------------------------------------------------------------------------
(* C7, C8: FX0A and FX29 *)

\* C7: a completed FX0A with no key pending leaves the program counter
\* where it was; with a key pending it stores the key in register X, clears
\* the pending flag and advances the program counter by 2.
C7_KeyWaitRetriesUntilKey ==
    (Completed /\ wClass = 15 /\ wNN = 10) =>
        IF pre.emu.key_pressed
        THEN /\ emulator.registers[wX] = unwrap(pre.emu.last_key)
             /\ ~ emulator.key_pressed
             /\ emulator.pc = pre.emu.pc + 2
        ELSE emulator.pc = pre.emu.pc

\* C8: a completed FX29 leaves the index register at (register X mod 16) * 5.
C8_FontAddressIsFiveTimesDigit ==
    (Completed /\ wClass = 15 /\ wNN = 41) =>
        emulator.index_reg = (pre.emu.registers[wX] % 16) * 5

----------------------------------------------------------------------------
(* C10: the timer tick *)

\* the units the tick is to subtract: 60 per elapsed second
units == (pre.elapsed \div TicksPerSec) * 60

ClampedSub(timer, n) == IF timer - n > 0 THEN timer - n ELSE 0

\* the step executed 1NNN, 6XNN or ANNN: it cannot fault before the tick
\* and does not write a timer
PlainStep == Stepped /\ wClass \in {1, 6, 10}

\* C10: the tick at the end of a step completes and leaves each timer at
\* max(0, previous value - units), never larger than it started.
C10_TickClampsAtZero ==
    PlainStep =>
        /\ ~ emulator.panicked
        /\ emulator.delay_timer = ClampedSub(pre.emu.delay_timer, units)
        /\ emulator.sound_timer = ClampedSub(pre.emu.sound_timer, units)
        /\ emulator.delay_timer <= pre.emu.delay_timer
        /\ emulator.sound_timer <= pre.emu.sound_timer

----------------------------------------------------------------------------
(* C9: 00E0 then 1200 *)

\* C9 as stated: every pixel is off after any number of steps, and once
\* steps have brought the program counter to 512 it stays 512 across the
\* steps that follow.
C9_PcSettlesAt512 ==
    /\ [](emulator.frame_buffer = {})
    /\ [][(steps >= 2 /\ emulator.pc = 512) => emulator.pc' = 512]_vars

\* C9 as amended: every pixel is off after any number of steps, and the
\* program counter alternates: a completed step from 512 (00E0) ends at 514
\* and a completed step from 514 (1200) ends at 512.
C9_ScreenClearPcAlternates ==
    data = LoopProgram =>
        /\ emulator.frame_buffer = {}
        /\ emulator.pc \in {512, 514}
        /\ Completed =>
              /\ pre.emu.pc = 512 => emulator.pc = 514
              /\ pre.emu.pc = 514 => emulator.pc = 512

\* C9 witness: the jump has brought the program counter back to 512 for at
\* least the second time
C9_BackAt512Again ==
    /\ data = LoopProgram
    /\ Completed /\ steps >= 4
    /\ word = 4608
    /\ pre.emu.pc = 514 /\ emulator.pc = 512

----------------------------------------------------------------------------
(* The program 00E0, 1200 with the handler run again and again, no time, a
   part of a second or a whole second after its last run.  No instruction
   of this program writes a timer. *)

TickTimeInputs == {0, 1, TicksPerSec}

NextTick ==
    /\ steps' = IF steps < MaxSteps THEN steps + 1 ELSE steps
    /\ \E key \in KeyInputs, dt \in TickTimeInputs : HostEvent(FALSE, key, dt)

\* the event loop keeps delivering events: the handler runs for ever
SpecTick == InitLoop /\ [][NextTick]_vars /\ WF_vars(NextTick)

----------------------------------------------------------------------------
(* C11: timer decay under frequent steps *)

\* the last run of the handler saw wall-clock time advance
TimeAdvanced == steps > 0 /\ pre.elapsed > 0

\* C11: if the handler keeps running while wall-clock time keeps advancing,
\* a delay timer that is not 0 eventually becomes 0.
C11_DelayTimerRunsOut ==
    ([]<>TimeAdvanced) =>
        [](emulator.delay_timer # 0 => <>(emulator.delay_timer = 0))

----------------------------------------------------------------------------
(* Arithmetic: two loads, then one of 8XY4, 8XY5, 8XY6, 8XY7, 8XYE or
   7XNN; the handler runs less than a second apart *)

AluRegs == {<<0, 1>>, <<3, 3>>, <<2, 15>>, <<15, 4>>}
AluValues == {5, 10, 100, 129, 200, 250}
AluOps == {4, 5, 6, 7, 14}
AluPrograms ==
    { Rom(<<OpXNN(6, r[1], a), OpXNN(6, r[2], b), Word(8, r[1], r[2], k)>>) :
        r \in AluRegs, a \in AluValues, b \in AluValues, k \in AluOps }
    \cup
    { Rom(<<OpXNN(6, r[1], a), OpXNN(6, r[2], b), OpXNN(7, r[1], b)>>) :
        r \in AluRegs, a \in AluValues, b \in AluValues }

AluTimeInputs == {0, 1}

InitAlu ==
    /\ data \in AluPrograms
    /\ build \in Builds
    /\ emulator = CHIP8_new(data)
    /\ elapsed = 0
    /\ steps = 0
    /\ pre = [emu |-> CHIP8_new(data), elapsed |-> 0]

NextAlu ==
    /\ steps < MaxSteps
    /\ steps' = steps + 1
    /\ \E key \in KeyInputs, dt \in AluTimeInputs : HostEvent(FALSE, key, dt)

SpecAlu == InitAlu /\ [][NextAlu]_vars

----------------------------------------------------------------------------
(* C12: 8XY4 *)

\* the values of register X and register Y before the last step
vx0 == pre.emu.registers[wX]
vy0 == pre.emu.registers[wY]

Min255(n) == IF n > 255 THEN 255 ELSE n
Carry(n) == IF n > 255 THEN 1 ELSE 0

\* C12 as stated: after a completed 8XY4, for every X and Y, register X is
\* min(255, x + y) and register 15 is 1 if x + y > 255 and 0 otherwise.
C12_AddSaturatesEveryX ==
    (Completed /\ wClass = 8 /\ wN = 4) =>
        /\ emulator.registers[wX] = Min255(vx0 + vy0)
        /\ emulator.registers[15] = Carry(vx0 + vy0)

\* C12 as amended: after a completed 8XY4 register 15 is 1 if x + y > 255
\* and 0 otherwise, and register X, when X is not 15, is min(255, x + y);
\* when X is 15 the flag is what register 15 is left with.
C12_AddSaturatesFlagLast ==
    (Completed /\ wClass = 8 /\ wN = 4) =>
        /\ emulator.registers[15] = Carry(vx0 + vy0)
        /\ wX # 15 => emulator.registers[wX] = Min255(vx0 + vy0)

\* C12 witness: an 8XY4 whose true sum exceeded 255, X not 15
C12_AddOverflowed ==
    /\ Completed /\ wClass = 8 /\ wN = 4
    /\ wX # 15 /\ vx0 + vy0 > 255
    /\ emulator.registers[wX] = 255 /\ emulator.registers[15] = 1

----------------------------------------------------------------------------
(* C13: 8XY5 and 8XY7 *)

\* C13: with X not 15, a completed 8XY5 leaves register X = x - y and
\* register 15 = 1 when x > y, and both 0 when x <= y; a completed 8XY7
\* leaves register X = y - x and register 15 = 1 when y > x, and both 0
\* otherwise.  The result is never a wrapped difference.
C13_SubtractClampsWithFlag ==
    /\ (Completed /\ wClass = 8 /\ wN = 5 /\ wX # 15) =>
          /\ emulator.registers[wX] = (IF vx0 > vy0 THEN vx0 - vy0 ELSE 0)
          /\ emulator.registers[15] = (IF vx0 > vy0 THEN 1 ELSE 0)
    /\ (Completed /\ wClass = 8 /\ wN = 7 /\ wX # 15) =>
          /\ emulator.registers[wX] = (IF vy0 > vx0 THEN vy0 - vx0 ELSE 0)
          /\ emulator.registers[15] = (IF vy0 > vx0 THEN 1 ELSE 0)

\* C13 witness: an 8XY5 with x < y, which a wrapping subtraction would
\* have left above 0
C13_SubtractedLarger ==
    /\ Completed /\ wClass = 8 /\ wN = 5
    /\ wX # 15 /\ vx0 < vy0 /\ vx0 > 0
    /\ emulator.registers[wX] = 0 /\ emulator.registers[15] = 0

----------------------------------------------------------------------------
(* C14: 7XNN *)

\* C14: a completed 7XNN leaves register X = min(255, x + NN), and
\* register 15 as it was unless X is 15.
C14_AddImmediateSaturates ==
    (Completed /\ wClass = 7) =>
        /\ emulator.registers[wX] = Min255(vx0 + wNN)
        /\ wX # 15 => emulator.registers[15] = pre.emu.registers[15]

\* C14 witness: a 7XNN whose true sum exceeded 255, with register 15 not 0
C14_AddImmediateOverflowed ==
    /\ Completed /\ wClass = 7
    /\ wX # 15 /\ vx0 + wNN > 255
    /\ emulator.registers[wX] = 255
    /\ emulator.registers[15] > 1

----------------------------------------------------------------------------
(* C15: 8XY6 and 8XYE *)

\* C15: with X not 15, a completed 8XY6 leaves register X = y >> 1 and
\* register 15 = the least significant bit of y; a completed 8XYE leaves
\* register X = (y << 1) mod 256 and register 15 = the most significant
\* bit of y, y being the value of register Y.
C15_ShiftsTakeRegisterY ==
    /\ (Completed /\ wClass = 8 /\ wN = 6 /\ wX # 15) =>
          /\ emulator.registers[wX] = vy0 \div 2
          /\ emulator.registers[15] = vy0 % 2
    /\ (Completed /\ wClass = 8 /\ wN = 14 /\ wX # 15) =>
          /\ emulator.registers[wX] = (vy0 * 2) % 256
          /\ emulator.registers[15] = vy0 \div 128

\* C15 witness: an 8XY6 of two different registers holding values with
\* different low bits, the bit shifted out being 1
C15_ShiftedOutOne ==
    /\ Completed /\ wClass = 8 /\ wN = 6
    /\ wX # 15 /\ wX # wY /\ vy0 % 2 = 1 /\ vx0 % 2 = 0
    /\ emulator.registers[wX] = vy0 \div 2
    /\ emulator.registers[15] = 1

----------------------------------------------------------------------------
(* C16: EX9E and EXA1 *)

\* a key press is pending as the step starts and register X holds the key
KeyMatches == pre.emu.key_pressed /\ vx0 = unwrap(pre.emu.last_key)
KeyDiffers == pre.emu.key_pressed /\ vx0 # unwrap(pre.emu.last_key)

\* C16: a completed EX9E advances the program counter by 4 when a key press
\* is pending and register X equals the last key, a completed EXA1 by 4
\* when one is pending and register X differs from it; otherwise, and when
\* no key press is pending, each advances it by 2.
C16_KeySkipsCompareLastKey ==
    /\ (Completed /\ wClass = 14 /\ wNN = 158) =>
          emulator.pc = pre.emu.pc + (IF KeyMatches THEN 4 ELSE 2)
    /\ (Completed /\ wClass = 14 /\ wNN = 161) =>
          emulator.pc = pre.emu.pc + (IF KeyDiffers THEN 4 ELSE 2)

----------------------------------------------------------------------------
(* C17: CXNN *)

\* bit i of n, counted from the least significant bit
LsbBit(n, i) == (n \div (2 ^ i)) % 2

\* C17: a step that executes CXNN completes, and leaves in register X a
\* byte with no bit set outside NN; for NN = 0 it leaves 0.
C17_RandomIsMaskedByte ==
    (Stepped /\ wClass = 12) =>
        /\ ~ emulator.panicked
        /\ emulator.registers[wX] \in 0..255
        /\ \A i \in 0..7 : LsbBit(emulator.registers[wX], i) <= LsbBit(wNN, i)
        /\ wNN = 0 => emulator.registers[wX] = 0

----------------------------------------------------------------------------
(* C18: words that are no instruction *)

\* the 16-bit words that are instructions of the machine
DefinedOpcode(w) ==
    LET class == w \div 4096
        n == w % 16
        nn == w % 256
    IN  \/ w \in {224, 238}
        \/ class \in {1, 2, 3, 4, 6, 7, 10, 11, 12, 13}
        \/ class \in {5, 9} /\ n = 0
        \/ class = 8 /\ n \in (0..7) \cup {14}
        \/ class = 14 /\ nn \in {158, 161}
        \/ class = 15 /\ nn \in {7, 10, 21, 24, 30, 41, 51, 85, 101}

\* C18: a completed step whose word is no instruction advances the program
\* counter by exactly 2 and changes no register, index register, memory
\* byte, stack entry or frame buffer pixel.
C18_UnknownWordIsNoOp ==
    (Completed /\ ~ DefinedOpcode(word)) =>
        /\ emulator.pc = pre.emu.pc + 2
        /\ emulator.registers = pre.emu.registers
        /\ emulator.index_reg = pre.emu.index_reg
        /\ emulator.memory = pre.emu.memory
        /\ emulator.stack = pre.emu.stack
        /\ emulator.frame_buffer = pre.emu.frame_buffer

----------------------------------------------------------------------------
(* C20: the program counter at the end of memory *)

\* C20: a step taken with the program counter within 1 of the end of
\* memory does not abort the process and changes nothing of the machine.
C20_TruncatedFetchChangesNothing ==
    (steps > 0 /\ ~ pre.emu.paused /\ pre.emu.pc + 1 >= MEMORY_SIZE) =>
        emulator = pre.emu

----------------------------------------------------------------------------
(* The event loop with Space: each run of the handler may toggle pause *)

PausePrograms == {LoopProgram} \cup CallPrograms \cup RandomPrograms

InitPause ==
    /\ data \in PausePrograms
    /\ build \in Builds
    /\ emulator = CHIP8_new(data)
    /\ elapsed = 0
    /\ steps = 0
    /\ pre = [emu |-> CHIP8_new(data), elapsed |-> 0]

NextPause ==
    /\ steps < MaxSteps
    /\ steps' = steps + 1
    /\ \E space \in BOOLEAN, key \in KeyInputs, dt \in TimeInputs :
          HostEvent(space, key, dt)

SpecPause == InitPause /\ [][NextPause]_vars

----------------------------------------------------------------------------
(* C19: pause *)

\* machine b is machine a but for the key the handler latched
SameButLatch(a, b) ==
    [a EXCEPT !.last_key = b.last_key, !.key_pressed = b.key_pressed] = b

\* C19: a step taken while the machine is paused leaves every field of the
\* machine as it found it (program counter, registers, index register,
\* memory, stack, frame buffer, both timers, last key and pending flag);
\* and the run of the handler that toggles pause off finds the machine it
\* steps running and otherwise as the paused machine was.
C19_PausedStepIsNoOp ==
    /\ []((steps > 0 /\ pre.emu.paused) => emulator = pre.emu)
    /\ [][(emulator.paused /\ ~ pre'.emu.paused) =>
             SameButLatch([emulator EXCEPT !.paused = FALSE], pre'.emu)]_vars

\* C19 witness: a step taken while paused, away from the start of the
\* program, a second or more after the last tick and with a key pending
C19_SteppedWhilePaused ==
    /\ steps > 1 /\ pre.emu.paused /\ emulator.paused
    /\ pre.elapsed >= TicksPerSec
    /\ pre.emu.key_pressed /\ emulator.key_pressed
    /\ emulator.pc # PROGRAM_START

----------------------------------------------------------------------------
(* C21: a sprite row past the end of memory *)

\* the last step executed DXYN and one of the rows it was to read lies at
\* or past the end of memory
RowPastMemory ==
    /\ Stepped /\ wClass = 13
    /\ \E r \in 0..(wN - 1) : y0 + r <= 31 /\ pre.emu.index_reg + r >= MEMORY_SIZE

\* C21: when DXYN was to read a sprite row at index + r >= 4096, the frame
\* buffer, register 15 and the program counter are as they were before the
\* step.
C21_FaultingDrawChangesNothing ==
    RowPastMemory =>
        /\ emulator.frame_buffer = pre.emu.frame_buffer
        /\ emulator.registers[15] = pre.emu.registers[15]
        /\ emulator.pc = pre.emu.pc

----------------------------------------------------------------------------
(* The decoder on its own: a ROM of two bytes b0, b1 is loaded, update()
   fetches and decodes them, and process_op derives the operands.  Here pre
   holds the operands. *)

DecodeFirstBytes == {0, 1, 9, 10, 15, 16, 26, 112, 159, 160, 171, 240, 255}
DecodeSecondBytes == 0..255

InitDecode ==
    /\ \E b0 \in DecodeFirstBytes, b1 \in DecodeSecondBytes : data = <<b0, b1>>
    /\ build \in Builds
    /\ emulator = CHIP8_new(data)
    /\ elapsed = 0
    /\ steps = 0
    /\ pre = [X |-> 0, Y |-> 0, N |-> 0, NN |-> 0, NNN |-> 0]

\* the fetch and decode of update() and the operand reads of process_op
Decode ==
    /\ steps = 0
    /\ emulator' = [emulator EXCEPT !.current_op = decode(emulator)]
    /\ pre' = [X |-> op_X(emulator'.current_op), Y |-> op_Y(emulator'.current_op),
               N |-> op_N(emulator'.current_op), NN |-> op_NN(emulator'.current_op),
               NNN |-> op_NNN(emulator'.current_op)]
    /\ steps' = 1
    /\ UNCHANGED <<data, build, elapsed>>

NextDecode == Decode

SpecDecode == InitDecode /\ [][NextDecode]_vars

----------------------------------------------------------------------------
(* C22: decoding *)

\* C22: for bytes b0 at pc and b1 at pc + 1 the decoder yields exactly four
\* hexadecimal digits, those of b0 >> 4, b0 & 15, b1 >> 4 and b1 & 15 in
\* that order, and the operands are NNN = ((b0 & 15) << 8) | b1 and NN = b1
\* (X, Y and N being the second, third and fourth fields).
C22_DecodeYieldsFourFields ==
    steps = 1 =>
        LET b0 == data[1]
            b1 == data[2]
        IN  /\ emulator.current_op =
                  <<HexDigits[(b0 \div 16) + 1], HexDigits[(b0 % 16) + 1],
                    HexDigits[(b1 \div 16) + 1], HexDigits[(b1 % 16) + 1]>>
            /\ pre.NNN = (b0 % 16) * 256 + b1
            /\ pre.NN = b1
            /\ pre.X = b0 % 16 /\ pre.Y = b1 \div 16 /\ pre.N = b1 % 16

\* C22 witness: both bytes below 16, so that each needed a leading zero
C22_DecodedWithLeadingZeros ==
    /\ steps = 1
    /\ data[1] \in 1..15 /\ data[2] \in 1..15
    /\ Len(emulator.current_op) = 4
    /\ emulator.current_op[1] = "0" /\ emulator.current_op[3] = "0"

----------------------------------------------------------------------------
(* FX33's decimal decomposition on its own: a byte is drawn and split into
   its digits.  Here pre holds the byte and what the computation gave. *)

DigitInputs == 0..255

InitDigits ==
    /\ data = <<>>
    /\ build \in Builds
    /\ emulator = CHIP8_new(data)
    /\ elapsed = 0
    /\ steps = 0
    /\ \E number \in DigitInputs :
          pre = [number |-> number, digits |-> <<>>, overflow |-> FALSE]

\* let digit_three = ..; let digit_two = ..; let digit_one = ..
SpliceDigits ==
    /\ steps = 0
    /\ pre' = [pre EXCEPT !.digits = digits(pre.number),
                          !.overflow = digits_overflow(pre.number)]
    /\ steps' = 1
    /\ UNCHANGED <<data, emulator, build, elapsed>>

NextDigits == SpliceDigits

SpecDigits == InitDigits /\ [][NextDigits]_vars

----------------------------------------------------------------------------
(* C23: decimal digits *)

\* C23: for every byte X the decomposition gives hundreds, tens and units
\* with hundreds * 100 + tens * 10 + units = X, tens and units in 0..9,
\* hundreds in 0..2, and no 8-bit subtraction or multiplication on the way
\* leaves 0..255.
C23_DigitsRecomposeTheByte ==
    steps = 1 =>
        /\ Len(pre.digits) = 3
        /\ pre.digits[1] * 100 + pre.digits[2] * 10 + pre.digits[3] = pre.number
        /\ pre.digits[1] \in 0..2
        /\ pre.digits[2] \in 0..9
        /\ pre.digits[3] \in 0..9
        /\ ~ pre.overflow

\* C23 witness: a byte of three digits, none of them 0, was split
C23_SplitThreeDigits ==
    /\ steps = 1
    /\ pre.number = 159
    /\ pre.digits = <<1, 5, 9>>

----------------------------------------------------------------------------
(* Calls and returns.  Beside the machine as update() found it, pre keeps
   the calls that have not returned yet: for each, the program counter p
   its 2NNN was executed at and the stack as it was just before; and
   `matched`, the call that the 00EE of the last step returned from. *)

\* two subroutines, one calling the other; a call to NNN starts executing
\* at NNN + 2
\*   512: 2206   514: 6011   516: 1204   518: 0000   520: 220C
\*   522: 00EE   524: 0000   526: 6122   528: 00EE
NestedProgram ==
    Rom(<<OpNNN(2, 518), OpXNN(6, 0, 17), OpNNN(1, 516), Word(0, 0, 0, 0),
          OpNNN(2, 524), Word(0, 0, 14, 14), Word(0, 0, 0, 0),
          OpXNN(6, 1, 34), Word(0, 0, 14, 14)>>)

NestingPrograms == CallPrograms \cup {NestedProgram}

InitCall ==
    /\ data \in NestingPrograms
    /\ build \in Builds
    /\ emulator = CHIP8_new(data)
    /\ elapsed = 0
    /\ steps = 0
    /\ pre = [emu |-> CHIP8_new(data), elapsed |-> 0, calls |-> <<>>, matched |-> <<>>]

\* one run of the handler, with the calls outstanding kept up to date
CallEvent(key, dt) ==
    /\ HandlerRun(FALSE, key, dt)
    /\ LET entered == latch_key(emulator, key)
           fetched == entered.pc + 1 < MEMORY_SIZE /\ ~ emulator'.panicked
           w == memory_at(entered, entered.pc) * 256 + memory_at(entered, entered.pc + 1)
           called == fetched /\ w \div 4096 = 2
           returned == fetched /\ w = 238 /\ pre.calls # <<>>
       IN  pre' = [emu |-> entered,
                   elapsed |-> elapsed + dt,
                   calls |-> IF called
                             THEN Append(pre.calls, [p |-> entered.pc, stack |-> entered.stack])
                             ELSE IF returned
                             THEN SubSeq(pre.calls, 1, Len(pre.calls) - 1)
                             ELSE pre.calls,
                   matched |-> IF returned THEN <<pre.calls[Len(pre.calls)]>> ELSE <<>>]

NextCall ==
    /\ steps < MaxSteps
    /\ steps' = steps + 1
    /\ \E key \in KeyInputs, dt \in TimeInputs : CallEvent(key, dt)

SpecCall == InitCall /\ [][NextCall]_vars

----------------------------------------------------------------------------
(* C24: call and return *)

\* C24: when a step executes the 00EE that matches a 2NNN executed at
\* program counter p (the last call not yet returned from), the step ends
\* with the program counter at p + 2 and the call stack as it was just
\* before that 2NNN.
C24_ReturnUndoesCall ==
    (steps > 0 /\ pre.matched # <<>>) =>
        /\ emulator.pc = pre.matched[1].p + 2
        /\ emulator.stack = pre.matched[1].stack

\* C24 witness: the outer of two nested calls has returned, after the inner
\* one: no call is outstanding and the stack is as constructed
C24_OuterReturnedAfterInner ==
    /\ steps >= 5 /\ pre.matched # <<>> /\ pre.calls = <<>>
    /\ data = NestedProgram
    /\ pre.matched[1].p = PROGRAM_START
    /\ emulator.pc = PROGRAM_START + 2
    /\ emulator.registers[1] = 34
    /\ NoCallOutstanding(emulator)

====
